---- MODULE Spec2Model ----
(***************************************************************************)
(* State-machine model of NotebookApp in                                   *)
(* IPython/frontend/html/notebook/notebookapp.py: the port scan of         *)
(* init_webapp, the SIGINT/SIGTERM handlers with the confirmation thread,  *)
(* and start() with its try/finally kernel teardown.                       *)
(*                                                                         *)
(* Threads: the main thread runs initialize(), start(), the IOLoop (and    *)
(* the callbacks it dispatches) and every Python signal handler; each      *)
(* _confirm_exit runs on its own daemon thread.                            *)
(***************************************************************************)
EXTENDS Integers, Sequences, FiniteSets, TLC

(***************************************************************************)
(* Bounds of the exploration.                                              *)
(***************************************************************************)
\* signals delivered to the process in one run
MaxSignals == 3
\* kernels a run may start
MaxKernels == 2

(***************************************************************************)
(* Program constants.                                                      *)
(***************************************************************************)
\* init_webapp: n = 50
n == 50
\* range(self.port, self.port+5)
SeqRun == 5
\* valid TCP ports
MaxPort == 65535
\* NotebookApp.port default
DefaultPort == 8888
\* ipython notebook --port=5555 --ip=*
ExamplePort == 5555

None == "None"
\* the loop variable of init_webapp while it is unbound: no candidate
NoPort == -1 - MaxPort
\* the local `line` of _confirm_exit while nothing was read
NoLine == << None >>

KernelIds == 1..MaxKernels
ThreadIds == 1..MaxSignals

\* what is typed at the "Shutdown Notebook Server (y/[n])?" prompt; a line is
\* the sequence of its characters
Lines == { <<"y">>, <<"Y", "e", "s">>, <<"n", "y">>, <<>> }

VARIABLES
    pc,             \* position of the main thread
    preferred,      \* the configured NotebookApp.port
    port,           \* self.port
    inUse,          \* ports on which listen() fails with EADDRINUSE
    errPorts,       \* ports on which listen() fails with another socket.error
    open_browser,   \* self.open_browser
    certfile,       \* self.certfile
    keyfile,        \* self.keyfile
    ip,             \* self.ip
    password,       \* self.password
    read_only,      \* self.read_only
    ssl_options,    \* init_webapp: the keys of the ssl_options of http_server
    warned,         \* log.critical calls made by init_webapp
    logged,         \* start: the URL of the "running at" log line
    opened,         \* start: the URL handed to browser.open
    attempt,        \* init_webapp: candidates taken from the list so far
    candidate,      \* init_webapp: loop variable `port`
    listening,      \* ports http_server is bound to
    exc,            \* exception that left (or will leave) the main thread
    sigintHandler,  \* signal.getsignal(SIGINT)
    sigtermHandler, \* signal.getsignal(SIGTERM)
    sigints,        \* SIGINTs delivered
    sigterms,       \* SIGTERMs delivered
    tstate,         \* per confirmation thread: where _confirm_exit is
    tline,          \* per confirmation thread: the line it read
    rounds,         \* confirmation threads started
    callbacks,      \* IOLoop._callbacks; an entry names the thread that added it
    restores,       \* per thread: runs of the restore callback it added
    stopRequested,  \* IOLoop.stop() has been called
    loopEntered,    \* IOLoop.start() has been called
    kernel_ids,     \* km.kernel_ids
    snapshot,       \* cleanup_kernels: list(km.kernel_ids)
    idx,            \* cleanup_kernels: position in the snapshot
    kills,          \* per kernel id: kill_kernel calls made by cleanup_kernels
    missed,         \* ids that were no longer registered when cleanup killed them
    cleaned         \* cleanup_kernels has returned

vars == << pc, preferred, port, inUse, errPorts, open_browser, certfile,
           keyfile, ip, password, read_only, ssl_options, warned, logged,
           opened, attempt,
           candidate, listening, exc, sigintHandler, sigtermHandler, sigints,
           sigterms, tstate, tline, rounds, callbacks, restores,
           stopRequested, loopEntered, kernel_ids, snapshot, idx, kills,
           missed, cleaned >>

bindVars == << preferred, port, inUse, errPorts, attempt, candidate, listening >>
sigVars == << sigintHandler, sigtermHandler, sigints, sigterms >>
threadVars == << tstate, tline, rounds >>
kernelVars == << kernel_ids, snapshot, idx, kills, missed, cleaned >>
confVars == << open_browser, certfile, keyfile, ip, password, read_only >>
logVars == << ssl_options, warned, logged, opened >>

(***************************************************************************)
(* The configuration: the traits of NotebookApp as the command line and    *)
(* the config files set them.                                              *)
(***************************************************************************)
LOCALHOST == "127.0.0.1"

\* _ip_changed(name, old, new): what self.ip holds once it was set to new
ip_changed(new) == IF new = "*" THEN "" ELSE new

\* every setting of --ip, certfile, keyfile, password and read_only
Settings ==
    [ip : {LOCALHOST, "*"}, certfile : {"", "mycert.pem"},
     keyfile : {"", "mykey.key"}, password : {"", "sha1:salt:hash"},
     read_only : BOOLEAN]

\* the traits left at their defaults
Defaults ==
    [ip |-> LOCALHOST, certfile |-> "", keyfile |-> "", password |-> "",
     read_only |-> FALSE]

\* ipython notebook --port=5555 --ip=*
Public == [Defaults EXCEPT !.ip = "*"]

\* ipython notebook --certfile=mycert.pem
Certified == [Defaults EXCEPT !.certfile = "mycert.pem"]

\* a URL that was not written: start() has not got to it
NoUrl == [proto |-> None, host |-> None, port |-> NoPort]

(***************************************************************************)
(* The network, as listen() sees it.                                       *)
(***************************************************************************)
\* every port init_webapp can hand to listen()
ScanRange(p) == (p - 2 * n)..(p + 2 * n)

\* one run: what listen() will meet, whether a browser is to be opened, and
\* the settings
cfg(u, e, b, s) == [inUse |-> u, errPorts |-> e, open_browser |-> b, set |-> s]

\* the runs explored for the default port p
Configs(p) ==
    { cfg({}, {}, TRUE, Defaults), cfg({p}, {}, FALSE, Public),
      cfg(ScanRange(p) \ {p + 7}, {}, TRUE, Certified),
      cfg(ScanRange(p), {}, TRUE, Defaults),
      cfg({p, p + 1}, {p + 2}, TRUE, Defaults),
      cfg({p}, {p}, TRUE, Defaults),
      cfg(ScanRange(p), {p - 9}, FALSE, Defaults) }

\* the same, for a port given with --port
FewConfigs(p) ==
    { cfg({}, {}, TRUE, [Public EXCEPT !.read_only = TRUE]),
      cfg({p + 1}, {p}, FALSE, Defaults) }

\* preferred port -> runs explored
Preferred == [p \in {DefaultPort, ExamplePort} |->
                 IF p = DefaultPort THEN Configs(p) ELSE FewConfigs(p)]

\* a preferred port within 2*n of the lowest port, and one within 2*n of the
\* highest
LowPort == n
HighPort == MaxPort - n

\* the runs of initialize() explored for every setting of the traits
AllSettings(p) ==
    { cfg({}, {}, b, s) : b \in BOOLEAN, s \in Settings }

\* the runs of initialize() explored for the port scan from p
Scans(p) ==
    { cfg(p..(p + 4), {}, FALSE, Defaults),
      cfg(ScanRange(p) \ {p + 7}, {}, FALSE, Defaults),
      cfg(ScanRange(p), {}, TRUE, Defaults) }

\* preferred port -> runs of initialize() explored
Startups == [p \in {DefaultPort, LowPort, HighPort} |->
                IF p = DefaultPort THEN AllSettings(p) \cup Scans(p)
                ELSE {cfg({}, {}, FALSE, Defaults),
                      cfg(p..(p + 4), {}, FALSE, Public)}]

\* outcome of self.http_server.listen(c, self.ip); port 0 asks the system
\* for a port of its choice, which is never in use
Listen(c) ==
    IF c < 0 \/ c > MaxPort THEN "OverflowError"
    ELSE IF c = 0 THEN "ok"
    ELSE IF c \in errPorts THEN "EACCES"
    ELSE IF c \in inUse THEN "EADDRINUSE"
    ELSE "ok"

\* the ports the socket may be bound to when listen(c, self.ip) succeeds
Bound(c) ==
    IF c = 0 THEN {q \in (MaxPort - 1)..MaxPort : q \notin inUse \cup errPorts}
    ELSE {c}

\* the state after NotebookApp() and the loading of the configuration, for
\* the preferred port p and the run c
Constructed(p, c) ==
    /\ pc = "init_configurables"
    /\ preferred = p
    /\ port = p
    /\ inUse = c.inUse
    /\ errPorts = c.errPorts
    /\ open_browser = c.open_browser
    /\ certfile = c.set.certfile
    /\ keyfile = c.set.keyfile
    /\ ip = ip_changed(c.set.ip)
    /\ password = c.set.password
    /\ read_only = c.set.read_only
    /\ ssl_options = {None}
    /\ warned = 0
    /\ logged = NoUrl
    /\ opened = NoUrl
    /\ attempt = 0
    /\ candidate = NoPort
    /\ listening = {}
    /\ exc = None
    /\ sigintHandler = "default"
    /\ sigtermHandler = "default"
    /\ sigints = 0
    /\ sigterms = 0
    /\ tstate = [t \in ThreadIds |-> "unborn"]
    /\ tline = [t \in ThreadIds |-> NoLine]
    /\ rounds = 0
    /\ callbacks = << >>
    /\ restores = [t \in ThreadIds |-> 0]
    /\ stopRequested = FALSE
    /\ loopEntered = FALSE
    /\ kernel_ids = {}
    /\ snapshot = << >>
    /\ idx = 0
    /\ kills = [k \in KernelIds |-> 0]
    /\ missed = {}
    /\ cleaned = FALSE

Init == \E p \in DOMAIN Preferred : \E c \in Preferred[p] : Constructed(p, c)

\* the same, for the runs of initialize()
InitStartup ==
    \E p \in DOMAIN Startups : \E c \in Startups[p] : Constructed(p, c)

(***************************************************************************)
(* initialize(): init_configurables, init_webapp, init_signal.             *)
(***************************************************************************)
\* init_configurables followed at once by the registration of the handlers
init_configurables_then_signal ==
    /\ pc = "init_configurables"
    /\ sigintHandler' = "handle_sigint"
    /\ sigtermHandler' = "signal_stop"
    /\ pc' = "init_webapp_setup"
    /\ UNCHANGED << bindVars, confVars, logVars, exc, sigints, sigterms,
                    threadVars, callbacks, restores, stopRequested,
                    loopEntered, kernelVars >>

init_configurables ==
    /\ pc = "init_configurables"
    /\ pc' = "init_webapp_setup"
    /\ UNCHANGED << bindVars, confVars, logVars, exc, sigVars, threadVars,
                    callbacks, restores, stopRequested, loopEntered,
                    kernelVars >>

\* SslOptions built from whichever of the two files is configured
SslOptionsAnyFile ==
    IF certfile # "" \/ keyfile # ""
    THEN (IF certfile # "" THEN {"certfile"} ELSE {})
            \cup (IF keyfile # "" THEN {"keyfile"} ELSE {})
    ELSE {None}

\* ssl_options as init_webapp builds it: the keys of the dict, or None
SslOptions ==
    IF certfile # ""
    THEN {"certfile"} \cup (IF keyfile # "" THEN {"keyfile"} ELSE {})
    ELSE {None}

\* Insecure with the password and read-only tests the other way round
InsecureEitherOff(o) ==
    o = {None} /\ ip = "" /\ (password = "" \/ ~read_only)

\* the condition of the log.critical of init_webapp, on the options o
Insecure(o) ==
    o = {None} /\ ip = "" /\ ~(read_only /\ password = "")

\* init_webapp up to its loop: the web application, the HTTPServer with its
\* ssl_options, and the warning
init_webapp_setup ==
    /\ pc = "init_webapp_setup"
    /\ ssl_options' = SslOptions
    /\ warned' = IF Insecure(SslOptions) THEN warned + 1 ELSE warned
    /\ pc' = "init_webapp"
    /\ UNCHANGED << bindVars, confVars, logged, opened, exc, sigVars,
                    threadVars, callbacks, restores, stopRequested,
                    loopEntered, kernelVars >>

\* Candidates with the consecutive run started one port too high
CandidatesFromNext(i) ==
    IF i < SeqRun THEN {preferred + i + 1}
    ELSE {preferred + d : d \in (-2 * n)..(2 * n)}

\* Candidates with the random ports drawn from one port further out
CandidatesWide(i) ==
    IF i < SeqRun THEN {preferred + i}
    ELSE {preferred + d : d \in (-2 * n - 1)..(2 * n + 1)}

\* the i-th element (from 0) of
\*   range(self.port, self.port+5) + [self.port + randint(-2*n, 2*n) ...]
Candidates(i) ==
    IF i < SeqRun THEN {preferred + i}
    ELSE {preferred + d : d \in (-2 * n)..(2 * n)}

\* NumCandidates with n random ports after the consecutive run
NumCandidatesAll == SeqRun + n

\* length of that list
NumCandidates == SeqRun + (n - 5)

\* the for statement of init_webapp takes the next candidate from the list
init_webapp_for ==
    /\ pc = "init_webapp"
    /\ attempt < NumCandidates
    /\ \E c \in Candidates(attempt) : candidate' = c
    /\ attempt' = attempt + 1
    /\ pc' = "listen"
    /\ UNCHANGED << preferred, port, inUse, errPorts, listening, confVars, logVars,
                    exc, sigVars, threadVars, callbacks, restores,
                    stopRequested, loopEntered, kernelVars >>

\* init_webapp_listen with every socket.error taken for EADDRINUSE
init_webapp_listen_swallow ==
    /\ pc = "listen"
    /\ IF Listen(candidate) = "ok"
       THEN /\ \E q \in Bound(candidate) : listening' = listening \cup {q}
            /\ port' = candidate
            /\ pc' = "init_webapp_return"
            /\ UNCHANGED << candidate, exc >>
       ELSE /\ candidate' = NoPort
            /\ pc' = "init_webapp"
            /\ UNCHANGED << listening, port, exc >>
    /\ UNCHANGED << preferred, inUse, errPorts, attempt, confVars, logVars, sigVars,
                    threadVars, callbacks, restores, stopRequested,
                    loopEntered, kernelVars >>

\* the try statement in the loop: self.http_server.listen(port, self.ip)
init_webapp_listen ==
    /\ pc = "listen"
    /\ CASE Listen(candidate) = "ok" ->
                \* else: self.port = port; break
                /\ \E q \in Bound(candidate) :
                        listening' = listening \cup {q}
                /\ port' = candidate
                /\ pc' = "init_webapp_return"
                /\ UNCHANGED << candidate, exc >>
         [] Listen(candidate) = "EADDRINUSE" ->
                \* the port is logged; the loop variable is rebound by the
                \* for statement before anything reads it again
                /\ candidate' = NoPort
                /\ pc' = "init_webapp"
                /\ UNCHANGED << listening, port, exc >>
         [] OTHER ->
                \* if e.errno != errno.EADDRINUSE: raise
                /\ pc' = "raised"
                /\ exc' = Listen(candidate)
                /\ UNCHANGED << listening, port, candidate >>
    /\ UNCHANGED << preferred, inUse, errPorts, attempt, confVars, logVars, sigVars,
                    threadVars, callbacks, restores, stopRequested,
                    loopEntered, kernelVars >>

\* the for loop runs out of candidates: it has no else clause
init_webapp_exhausted ==
    /\ pc = "init_webapp"
    /\ attempt = NumCandidates
    /\ pc' = "init_webapp_return"
    /\ UNCHANGED << bindVars, confVars, logVars, exc, sigVars, threadVars,
                    callbacks, restores, stopRequested, loopEntered,
                    kernelVars >>

\* init_webapp returns: its locals go with its frame
init_webapp_return ==
    /\ pc = "init_webapp_return"
    /\ pc' = "init_signal"
    /\ attempt' = 0
    /\ candidate' = NoPort
    /\ UNCHANGED << preferred, port, inUse, errPorts, listening,
                    confVars, logVars, exc, sigVars, threadVars, callbacks,
                    restores, stopRequested, loopEntered, kernelVars >>

\* TermHandler with the SIGINT handler registered for SIGTERM too
TermHandlerConfirm == "handle_sigint"

\* what init_signal registers for SIGTERM
TermHandler == "signal_stop"

init_signal ==
    /\ pc = "init_signal"
    /\ sigintHandler' = "handle_sigint"
    /\ sigtermHandler' = TermHandler
    /\ pc' = "start"
    /\ UNCHANGED << bindVars, confVars, logVars, exc, sigints, sigterms,
                    threadVars, callbacks, restores, stopRequested,
                    loopEntered, kernelVars >>

(***************************************************************************)
(* The IOLoop (pyzmq/tornado): stop() sets a flag the loop tests once per  *)
(* iteration, after it has run the callbacks it found queued; start()      *)
(* returns at once when stop() was called before it.                       *)
(***************************************************************************)
\* ioloop.IOLoop.instance().stop()
ioloop_stop == stopRequested' = TRUE

\* ioloop.IOLoop.instance().add_callback(self._restore_sigint_handler), by thread t
add_callback(t) == callbacks' = Append(callbacks, t)

(***************************************************************************)
(* The signal handlers.  CPython runs a Python-level handler on the main   *)
(* thread, between two bytecodes, and never inside another handler, so a   *)
(* handler is one step.                                                    *)
(***************************************************************************)
Alive == pc \notin {"done", "raised"}

\* threading.Thread(target=self._confirm_exit).start()
thread_start ==
    /\ rounds' = rounds + 1
    /\ tstate' = [tstate EXCEPT ![rounds + 1] = "select"]
    /\ tline' = tline

\* ForcefulHandler when _handle_sigint leaves itself registered
KeptHandler == "handle_sigint"

\* what _handle_sigint registers for SIGINT before it starts the thread
ForcefulHandler == "signal_stop"

\* _handle_sigint(sig, frame)
handle_sigint ==
    /\ sigintHandler' = ForcefulHandler
    /\ thread_start
    /\ UNCHANGED << stopRequested, callbacks >>

\* signal_stop that logs the signal and does not stop the loop
signal_stop_log_only ==
    UNCHANGED << stopRequested, sigintHandler, threadVars, callbacks >>

\* _signal_stop(sig, frame)
signal_stop ==
    /\ ioloop_stop
    /\ UNCHANGED << sigintHandler, threadVars, callbacks >>

\* the handler registered for a name
Run(handler) ==
    CASE handler = "handle_sigint" -> handle_sigint
      [] handler = "signal_stop" -> signal_stop

\* the process receives SIGINT
deliver_sigint ==
    /\ Alive
    /\ sigintHandler # "default"
    /\ sigints + sigterms < MaxSignals
    /\ sigints' = sigints + 1
    /\ Run(sigintHandler)
    /\ UNCHANGED << pc, bindVars, confVars, logVars, exc, sigtermHandler, sigterms,
                    restores, loopEntered, kernelVars >>

\* the process receives SIGTERM
deliver_sigterm ==
    /\ Alive
    /\ sigtermHandler # "default"
    /\ sigints + sigterms < MaxSignals
    /\ sigterms' = sigterms + 1
    /\ Run(sigtermHandler)
    /\ UNCHANGED << pc, bindVars, confVars, logVars, exc, sigtermHandler, sigints,
                    restores, loopEntered, kernelVars >>

\* _restore_sigint_handler(), run by the IOLoop
restore_sigint_handler == sigintHandler' = "handle_sigint"

(***************************************************************************)
(* _confirm_exit, on its own thread.                                       *)
(***************************************************************************)
Lower(ch) == IF ch = "Y" THEN "y" ELSE IF ch = "N" THEN "n" ELSE ch

\* line.lower().startswith('y')
StartsWithY(line) == Len(line) >= 1 /\ Lower(line[1]) = "y"

\* confirm_timeout that returns without scheduling the restore
confirm_timeout_no_restore(t) ==
    /\ Alive
    /\ tstate[t] = "select"
    /\ tstate' = [tstate EXCEPT ![t] = "timeout"]
    /\ UNCHANGED << pc, bindVars, confVars, logVars, exc, sigVars, tline, rounds,
                    callbacks, restores, stopRequested, loopEntered,
                    kernelVars >>

\* confirm_timeout that calls _restore_sigint_handler itself, on the thread
confirm_timeout_direct(t) ==
    /\ Alive
    /\ tstate[t] = "select"
    /\ restore_sigint_handler
    /\ tstate' = [tstate EXCEPT ![t] = "timeout"]
    /\ UNCHANGED << pc, bindVars, confVars, logVars, exc, sigtermHandler,
                    sigints, sigterms, tline, rounds, callbacks, restores,
                    stopRequested, loopEntered, kernelVars >>

\* select.select([sys.stdin], [], [], 5) returns r empty
confirm_timeout(t) ==
    /\ Alive
    /\ tstate[t] = "select"
    /\ add_callback(t)
    /\ tstate' = [tstate EXCEPT ![t] = "timeout"]
    /\ UNCHANGED << pc, bindVars, confVars, logVars, exc, sigVars, tline, rounds,
                    restores, stopRequested, loopEntered, kernelVars >>

\* select returns stdin readable and readline() returns the line
confirm_readline(t, line) ==
    /\ Alive
    /\ tstate[t] = "select"
    /\ tstate' = [tstate EXCEPT ![t] = "answered"]
    /\ tline' = [tline EXCEPT ![t] = line]
    /\ UNCHANGED << pc, bindVars, confVars, logVars, exc, sigVars, rounds,
                    callbacks, restores, stopRequested, loopEntered,
                    kernelVars >>

\* confirm_answer without the return after stop()
confirm_answer_no_return(t) ==
    /\ Alive
    /\ tstate[t] = "answered"
    /\ IF StartsWithY(tline[t])
       THEN /\ ioloop_stop
            /\ tstate' = [tstate EXCEPT ![t] = "confirmed"]
       ELSE /\ tstate' = [tstate EXCEPT ![t] = "declined"]
            /\ UNCHANGED stopRequested
    /\ add_callback(t)
    /\ tline' = [tline EXCEPT ![t] = NoLine]
    /\ UNCHANGED << pc, bindVars, confVars, logVars, exc, sigVars, rounds,
                    restores, loopEntered, kernelVars >>

\* confirm_answer that calls _restore_sigint_handler itself after a no
confirm_answer_direct(t) ==
    /\ Alive
    /\ tstate[t] = "answered"
    /\ IF StartsWithY(tline[t])
       THEN /\ ioloop_stop
            /\ tstate' = [tstate EXCEPT ![t] = "confirmed"]
            /\ UNCHANGED sigintHandler
       ELSE /\ restore_sigint_handler
            /\ tstate' = [tstate EXCEPT ![t] = "declined"]
            /\ UNCHANGED stopRequested
    /\ tline' = [tline EXCEPT ![t] = NoLine]
    /\ UNCHANGED << pc, bindVars, confVars, logVars, exc, sigtermHandler,
                    sigints, sigterms, rounds, callbacks, restores,
                    loopEntered, kernelVars >>

\* the rest of _confirm_exit once a line was read
confirm_answer(t) ==
    /\ Alive
    /\ tstate[t] = "answered"
    /\ IF StartsWithY(tline[t])
       THEN /\ ioloop_stop
            /\ tstate' = [tstate EXCEPT ![t] = "confirmed"]
            /\ UNCHANGED callbacks
       ELSE /\ add_callback(t)
            /\ tstate' = [tstate EXCEPT ![t] = "declined"]
            /\ UNCHANGED stopRequested
    /\ tline' = [tline EXCEPT ![t] = NoLine]
    /\ UNCHANGED << pc, bindVars, confVars, logVars, exc, sigVars, rounds,
                    restores, loopEntered, kernelVars >>

(***************************************************************************)
(* start().                                                                *)
(***************************************************************************)
\* proto = 'https' if self.certfile else 'http'
Proto == IF certfile # "" THEN "https" ELSE "http"

\* the URL of the log line: "%s://%s:%i%s" % (proto, ip, self.port, ...)
LoggedUrl ==
    [proto |-> Proto,
     host |-> IF ip # "" THEN ip ELSE "[all ip addresses on your system]",
     port |-> port]

\* the URL the browser thread opens
BrowserUrl ==
    [proto |-> Proto, host |-> IF ip # "" THEN ip ELSE "127.0.0.1",
     port |-> port]

\* the log lines and the browser thread; webbrowser.get() raises
\* webbrowser.Error when it finds no browser, and what browser.open() does
\* stays on the thread that calls it
start_browser ==
    /\ pc = "start"
    /\ logged' = LoggedUrl
    /\ \E found \in BOOLEAN :
        IF open_browser /\ ~found
        THEN pc' = "raised" /\ exc' = "webbrowser.Error" /\ opened' = opened
        ELSE /\ pc' = "ioloop_start"
             /\ exc' = exc
             /\ opened' = IF open_browser THEN BrowserUrl ELSE opened
    /\ UNCHANGED << bindVars, confVars, ssl_options, warned, sigVars,
                    threadVars, callbacks, restores, stopRequested,
                    loopEntered, kernelVars >>

\* list(km.kernel_ids): the ids, each once.  The ids are interchangeable,
\* so the order of the dict is taken to be ascending
ListOf(ids) ==
    CHOOSE s \in [1..Cardinality(ids) -> ids] :
        /\ \A k \in ids : \E i \in DOMAIN s : s[i] = k
        /\ \A i, j \in DOMAIN s : i < j => s[i] < s[j]

\* the finally clause is entered: cleanup_kernels copies the ids
enter_finally(e) ==
    /\ pc' = "cleanup"
    /\ exc' = e
    /\ snapshot' = ListOf(kernel_ids)
    /\ idx' = 1
    /\ UNCHANGED << kernel_ids, kills, missed, cleaned >>

\* try: ioloop.IOLoop.instance().start()
ioloop_start ==
    /\ pc = "ioloop_start"
    /\ loopEntered' = TRUE
    /\ IF stopRequested
       THEN enter_finally(None)
       ELSE pc' = "loop" /\ UNCHANGED << exc, kernelVars >>
    /\ UNCHANGED << bindVars, confVars, logVars, sigVars, threadVars, callbacks,
                    restores, stopRequested >>

\* the loop runs the callback at the head of its queue
ioloop_run_callback ==
    /\ pc = "loop"
    /\ callbacks # << >>
    /\ restore_sigint_handler
    /\ restores' = [restores EXCEPT ![Head(callbacks)] = @ + 1]
    /\ callbacks' = Tail(callbacks)
    /\ UNCHANGED << pc, bindVars, confVars, logVars, exc, sigtermHandler, sigints,
                    sigterms, threadVars, stopRequested, loopEntered,
                    kernelVars >>

\* the loop sees the stop flag and start() returns
ioloop_exit ==
    /\ pc = "loop"
    /\ stopRequested
    /\ enter_finally(None)
    /\ UNCHANGED << bindVars, confVars, logVars, sigVars, threadVars, callbacks,
                    restores, stopRequested, loopEntered >>

\* what the except clause leaves pending when e comes out of the loop
AfterExcept(e) == IF e = "KeyboardInterrupt" THEN None ELSE e

\* ioloop_raise when the teardown is not in a finally clause
ioloop_raise_no_finally(e) ==
    /\ pc = "loop"
    /\ pc' = IF AfterExcept(e) = None THEN "done" ELSE "raised"
    /\ exc' = AfterExcept(e)
    /\ UNCHANGED << bindVars, confVars, logVars, sigVars, threadVars, callbacks,
                    restores, stopRequested, loopEntered, kernelVars >>

\* an exception comes out of IOLoop.start()
ioloop_raise(e) ==
    /\ pc = "loop"
    /\ enter_finally(AfterExcept(e))
    /\ UNCHANGED << bindVars, confVars, logVars, sigVars, threadVars, callbacks,
                    restores, stopRequested, loopEntered >>

\* a request handled by the loop starts kernel k
start_kernel(k) ==
    /\ pc = "loop"
    /\ k \notin kernel_ids
    /\ kernel_ids' = kernel_ids \cup {k}
    /\ UNCHANGED << pc, bindVars, confVars, logVars, exc, sigVars, threadVars,
                    callbacks, restores, stopRequested, loopEntered,
                    snapshot, idx, kills, missed, cleaned >>

\* km.kill_kernel(kid): the kernel goes, and so may others that die with it;
\* an id that is no longer registered is not an error
kill_kernel(kid, others) ==
    kernel_ids' = kernel_ids \ ({kid} \cup others)

\* cleanup_kill over the live ids: one that has gone is passed over
cleanup_kill_live ==
    /\ pc = "cleanup"
    /\ idx <= Len(snapshot)
    /\ IF snapshot[idx] \in kernel_ids
       THEN /\ \E others \in SUBSET kernel_ids :
                    kill_kernel(snapshot[idx], others)
            /\ kills' = [kills EXCEPT ![snapshot[idx]] = @ + 1]
       ELSE UNCHANGED << kernel_ids, kills >>
    /\ idx' = idx + 1
    /\ UNCHANGED << pc, bindVars, confVars, logVars, exc, sigVars, threadVars,
                    callbacks, restores, stopRequested, loopEntered,
                    snapshot, missed, cleaned >>

\* one iteration of the for loop of cleanup_kernels
cleanup_kill ==
    /\ pc = "cleanup"
    /\ idx <= Len(snapshot)
    /\ \E others \in SUBSET kernel_ids : kill_kernel(snapshot[idx], others)
    /\ kills' = [kills EXCEPT ![snapshot[idx]] = @ + 1]
    /\ missed' = IF snapshot[idx] \in kernel_ids THEN missed
                 ELSE missed \cup {snapshot[idx]}
    /\ idx' = idx + 1
    /\ UNCHANGED << pc, bindVars, confVars, logVars, exc, sigVars, threadVars,
                    callbacks, restores, stopRequested, loopEntered,
                    snapshot, cleaned >>

\* cleanup_kernels returns and start() returns, or lets the exception go on
cleanup_return ==
    /\ pc = "cleanup"
    /\ idx > Len(snapshot)
    /\ cleaned' = TRUE
    /\ pc' = IF exc = None THEN "done" ELSE "raised"
    /\ UNCHANGED << bindVars, confVars, logVars, exc, sigVars, threadVars,
                    callbacks, restores, stopRequested, loopEntered,
                    kernel_ids, snapshot, idx, kills, missed >>

LoopExceptions == {"KeyboardInterrupt", "Exception"}

MainStep ==
    \/ init_configurables
    \/ init_webapp_setup
    \/ init_webapp_for
    \/ init_webapp_listen
    \/ init_webapp_exhausted
    \/ init_webapp_return
    \/ init_signal
    \/ start_browser
    \/ ioloop_start
    \/ ioloop_exit
    \/ cleanup_kill
    \/ cleanup_return

Next ==
    \/ init_configurables
    \/ init_webapp_setup
    \/ init_webapp_for
    \/ init_webapp_listen
    \/ init_webapp_exhausted
    \/ init_webapp_return
    \/ init_signal
    \/ start_browser
    \/ ioloop_start
    \/ ioloop_run_callback
    \/ ioloop_exit
    \/ \E e \in LoopExceptions : ioloop_raise(e)
    \/ \E k \in KernelIds : start_kernel(k)
    \/ cleanup_kill
    \/ cleanup_return
    \/ deliver_sigint
    \/ deliver_sigterm
    \/ \E t \in ThreadIds : confirm_timeout(t)
    \/ \E t \in ThreadIds, line \in Lines : confirm_readline(t, line)
    \/ \E t \in ThreadIds : confirm_answer(t)

Spec == Init /\ [][Next]_vars

\* initialize() and start() as far as the call of IOLoop.start(), on the main
\* thread alone
StartupNext ==
    \/ init_configurables
    \/ init_webapp_setup
    \/ init_webapp_for
    \/ init_webapp_listen
    \/ init_webapp_exhausted
    \/ init_webapp_return
    \/ init_signal
    \/ start_browser

StartupSpec == InitStartup /\ [][StartupNext]_vars

TypeOK ==
    /\ pc \in {"init_configurables", "init_webapp_setup", "init_webapp",
               "listen",
               "init_webapp_return",
               "init_signal", "start", "ioloop_start", "loop", "cleanup",
               "done", "raised"}
    /\ attempt \in 0..NumCandidates
    /\ rounds \in 0..MaxSignals
    /\ idx \in 0..(MaxKernels + 1)

\* the scheduling the code relies on: the main thread keeps running and a
\* running IOLoop runs the callbacks queued on it
FairSpec == Spec /\ WF_vars(MainStep) /\ WF_vars(ioloop_run_callback)

(***************************************************************************)
(* Vocabulary of the properties.                                           *)
(***************************************************************************)
\* the SignalState of the Signal Coordinator, read off the process state
SignalState ==
    IF stopRequested THEN "ForcedStop"
    ELSE IF sigintHandler = "signal_stop" THEN "ConfirmPending"
    ELSE "Normal"

Signals == sigints + sigterms

\* confirmation threads that have not returned
LiveThreads == {t \in ThreadIds : tstate[t] \in {"select", "answered"}}

\* restore callbacks thread t has queued and the loop has not run
Queued(t) == Cardinality({i \in DOMAIN callbacks : callbacks[i] = t})

\* thread t returned after a timeout or an answer that is not a yes
Declined(t) == tstate[t] \in {"timeout", "declined"}

\* the main thread has left the IOLoop, or never gets to it
ReactorGone == pc \in {"cleanup", "done", "raised"}

\* the line is a yes
Affirmative(line) == line # << >> /\ line[1] \in {"y", "Y"}

\* listen() would succeed on port q
Free(q) == q \in 0..MaxPort /\ q \notin inUse /\ q \notin errPorts

\* the preferred port and the four after it
FirstFive == preferred..(preferred + 4)

\* the main thread is past the port scan of init_webapp
Scanned ==
    pc \notin {"init_configurables", "init_webapp_setup", "init_webapp",
               "listen"}

(***************************************************************************)
(* C1  A SIGINT delivered in Normal installs the forced-stop handler for   *)
(* SIGINT and starts one confirmation thread (ConfirmPending); a SIGINT    *)
(* delivered in ConfirmPending requests the loop stop in the same step,    *)
(* whatever the confirmation thread is doing, and leaves it alone.         *)
(***************************************************************************)
C1_InterruptTransitions ==
    [][ sigints' = sigints + 1 =>
          /\ SignalState = "Normal" =>
                /\ SignalState' = "ConfirmPending"
                /\ sigintHandler' = "signal_stop"
                /\ rounds' = rounds + 1
                /\ LiveThreads' = LiveThreads \cup {rounds'}
                /\ tstate'[rounds'] = "select"
          /\ SignalState = "ConfirmPending" =>
                /\ SignalState' = "ForcedStop"
                /\ stopRequested'
                /\ UNCHANGED << tstate, tline, rounds, callbacks >> ]_vars

\* two SIGINTs, the second while the confirmation thread was still waiting
C1_Witness ==
    /\ sigints = 2 /\ sigterms = 0
    /\ rounds = 1 /\ tstate[1] = "select"
    /\ stopRequested

(***************************************************************************)
(* C2  A confirmation thread that times out or reads a line that is not a  *)
(* yes queues the restore callback exactly once, and it is run at most     *)
(* once.  While that callback is queued, only a further signal makes       *)
(* stop() be called; and unless stop() is called or the main thread is     *)
(* out of the IOLoop for good, the callback is eventually run: the handler *)
(* that spawns the confirmation is registered again and the state is       *)
(* Normal.                                                                 *)
(***************************************************************************)
C2_RestoredOnce ==
    /\ [](\A t \in ThreadIds :
            restores[t] + Queued(t) = IF Declined(t) THEN 1 ELSE 0)
    /\ [][ (callbacks # << >> /\ ~stopRequested /\ stopRequested')
             => Signals' = Signals + 1 ]_vars
    /\ (callbacks # << >> /\ ~stopRequested)
         ~> \/ /\ callbacks = << >>
               /\ sigintHandler = "handle_sigint"
               /\ SignalState = "Normal"
               /\ \A t \in ThreadIds : restores[t] = IF Declined(t) THEN 1 ELSE 0
            \/ stopRequested
            \/ ReactorGone

\* a round that timed out, then was restored by the loop, with no other signal
C2_Witness ==
    /\ Signals = 1
    /\ tstate[1] = "timeout"
    /\ restores[1] = 1
    /\ callbacks = << >>
    /\ SignalState = "Normal"
    /\ pc = "loop"

(***************************************************************************)
(* C3  When the confirmation thread has read a yes, its next step calls    *)
(* stop() (ForcedStop) and queues nothing; no restore callback is ever     *)
(* queued or run for that round.                                           *)
(***************************************************************************)
C3_ConfirmedStops ==
    /\ [][ \A t \in ThreadIds :
             (tstate[t] = "answered" /\ Affirmative(tline[t])
                /\ tstate'[t] # "answered")
             => /\ stopRequested'
                /\ SignalState' = "ForcedStop"
                /\ tstate'[t] = "confirmed"
                /\ callbacks' = callbacks ]_vars
    /\ [](\A t \in ThreadIds :
            tstate[t] = "confirmed" => restores[t] = 0 /\ Queued(t) = 0)

\* one SIGINT answered with a yes: the stop comes from the answer
C3_Witness ==
    /\ sigints = 1 /\ sigterms = 0
    /\ tstate[1] = "confirmed"
    /\ stopRequested
    /\ callbacks = << >>

(***************************************************************************)
(* C4  At most one confirmation thread is live in any reachable state.     *)
(***************************************************************************)
C4_OneConfirmation == Cardinality(LiveThreads) <= 1

\* a second round is live after the first was declined and restored
C4_Witness ==
    /\ rounds = 2
    /\ tstate[1] = "timeout"
    /\ restores[1] = 1
    /\ LiveThreads = {2}

(***************************************************************************)
(* C5  A SIGTERM delivered in Normal, ConfirmPending or ForcedStop calls   *)
(* stop() in the same step, starts no confirmation thread and leaves both  *)
(* handler registrations and the callback queue as they were.              *)
(***************************************************************************)
C5_TerminateStops ==
    [][ sigterms' = sigterms + 1 =>
          /\ stopRequested'
          /\ UNCHANGED << sigintHandler, sigtermHandler, tstate, tline,
                          rounds, callbacks >> ]_vars

\* a SIGTERM that found a confirmation outstanding
C5_Witness ==
    /\ sigterms = 1 /\ sigints = 1
    /\ tstate[1] = "select"
    /\ sigintHandler = "signal_stop"
    /\ stopRequested

(***************************************************************************)
(* C6  Once IOLoop.start() has been called, start() neither returns nor    *)
(* lets an exception out before cleanup_kernels has run to its end,        *)
(* whether the loop was stopped, was interrupted or raised.                *)
(***************************************************************************)
C6_TeardownOnExit ==
    (loopEntered /\ pc \in {"done", "raised"})
        => cleaned /\ idx = Len(snapshot) + 1

\* the loop raised, the kernels were killed, the exception went on
C6_Witness ==
    /\ pc = "raised" /\ exc = "Exception"
    /\ loopEntered /\ cleaned
    /\ \E k \in KernelIds : kills[k] = 1

(***************************************************************************)
(* C7  cleanup_kernels calls kill_kernel exactly once for every id that    *)
(* was registered when it started and for no other, also when a kill       *)
(* unregisters ids that are still to come.                                 *)
(***************************************************************************)
C7_SnapshotTeardown ==
    /\ pc = "cleanup" =>
          \A k \in KernelIds :
              kills[k] = IF \E i \in 1..(idx - 1) : snapshot[i] = k
                         THEN 1 ELSE 0
    /\ cleaned =>
          \A k \in KernelIds :
              kills[k] = IF \E i \in DOMAIN snapshot : snapshot[i] = k
                         THEN 1 ELSE 0

\* teardown finished although an id had gone before its turn
C7_Witness ==
    /\ cleaned
    /\ Len(snapshot) = MaxKernels
    /\ missed # {}
    /\ \A k \in KernelIds : kills[k] = 1

(***************************************************************************)
(* C8  When the preferred port and the four after it are free, the scan    *)
(* binds the preferred port with its first listen() and self.port is the   *)
(* preferred port.                                                         *)
(***************************************************************************)
C8_FirstTry ==
    ((\A q \in FirstFive : Free(q)) /\ Scanned)
        => /\ listening = {preferred}
           /\ port = preferred
           /\ pc = "init_webapp_return" => attempt = 1

\* the scan has just ended on the preferred port
C8_Witness ==
    /\ \A q \in FirstFive : Free(q)
    /\ pc = "init_webapp_return"
    /\ attempt = 1
    /\ listening = {preferred}

(***************************************************************************)
(* C9  When every candidate was in use the scan ends in an error: past     *)
(* init_webapp with nothing bound, the main thread has raised.             *)
(***************************************************************************)
C9_NoPortIsFatal ==
    (Scanned /\ listening = {}) => pc = "raised"

(***************************************************************************)
(* C10 A listen() that fails with anything but EADDRINUSE ends the scan in *)
(* that step: the error is raised out of init_webapp, nothing is bound,    *)
(* and no candidate is taken afterwards.                                   *)
(***************************************************************************)
C10_FatalBindError ==
    /\ [][ (pc = "listen" /\ Listen(candidate) \notin {"ok", "EADDRINUSE"})
             => /\ pc' = "raised"
                /\ exc' = Listen(candidate)
                /\ UNCHANGED << attempt, candidate, listening, port >> ]_vars
    /\ [][ pc = "raised" => UNCHANGED << pc, attempt, listening >> ]_vars

\* the third candidate met EACCES with 47 candidates left
C10_Witness ==
    /\ pc = "raised" /\ exc = "EACCES"
    /\ attempt = 3
    /\ attempt < NumCandidates
    /\ listening = {}

(***************************************************************************)
(* C11.  As stated: when the preferred port and the four after it are      *)
(* occupied and some port of [P - 100, P + 100] is free, the scan ends     *)
(* with a listener, on a port of that interval.  (The interval is taken    *)
(* inside the valid ports, so that no draw can fall outside them.)         *)
(***************************************************************************)
C11_AlwaysAcquires ==
    ( /\ FirstFive \subseteq inUse
      /\ ScanRange(preferred) \subseteq 1..MaxPort
      /\ \E q \in ScanRange(preferred) : Free(q)
      /\ Scanned )
        => listening # {} /\ port \in ScanRange(preferred)

(***************************************************************************)
(* C11, amended.  When the preferred port and the four after it are        *)
(* occupied, the scan need not end with a listener; when a listen() call   *)
(* of the scan does succeed, self.port is the candidate of that call, it   *)
(* is not one of the five consecutive ports, listen() accepts it, and it   *)
(* lies in [P - 100, P + 100].                                             *)
(***************************************************************************)
C11_AcquiredInRange ==
    (FirstFive \subseteq inUse /\ Scanned /\ listening # {})
        => /\ port \in ScanRange(preferred) \ FirstFive
           /\ Listen(port) = "ok"
           /\ listening \subseteq Bound(port)
           /\ Cardinality(listening) = 1

\* the 12th draw, say, finds the one free port of the interval
C11_Witness ==
    /\ FirstFive \subseteq inUse
    /\ ScanRange(preferred) \ inUse = {preferred + 7}
    /\ pc = "init_webapp_return"
    /\ attempt > SeqRun
    /\ listening = {preferred + 7}
    /\ port = preferred + 7

\* init_webapp has built the HTTPServer and decided about the warning
SetUp == pc \notin {"init_configurables", "init_webapp_setup"}

(***************************************************************************)
(* C12.  As stated: the security warning is emitted exactly when no        *)
(* certificate is configured, the host is all interfaces, and no password  *)
(* is set or read-only mode is off.                                        *)
(***************************************************************************)
C12_WarnedAsStated ==
    SetUp => ( warned > 0 <=>
                 /\ certfile = ""
                 /\ ip = ""
                 /\ (password = "" \/ ~read_only) )

(***************************************************************************)
(* C12, amended.  The security warning is emitted, once, exactly when no   *)
(* certificate is configured, the host is all interfaces, and it is not    *)
(* the case that read-only mode is on with no password set (that is: a     *)
(* password is set or read-only mode is off).  The step that decides it    *)
(* goes on to the port scan whatever it decides, and changes nothing else. *)
(***************************************************************************)
C12_WarnedExactlyWhen ==
    /\ [](SetUp => /\ warned \in {0, 1}
                   /\ warned = 1 <=>
                        /\ certfile = ""
                        /\ ip = ""
                        /\ ~(read_only /\ password = ""))
    /\ [][ pc = "init_webapp_setup"
             => /\ pc' = "init_webapp"
                /\ UNCHANGED << bindVars, confVars, exc, sigVars >> ]_vars

\* read-only with a password, on all interfaces, without TLS: warned, and
\* start() has got to the IOLoop
C12_Witness ==
    /\ warned = 1
    /\ read_only /\ password # "" /\ ip = "" /\ certfile = ""
    /\ pc = "ioloop_start"
    /\ listening = {port}

(***************************************************************************)
(* C13.  The server has TLS options exactly when a certificate file is     *)
(* configured (a key file alone gives none); with a certificate no         *)
(* security warning is emitted, whatever the host, password and read-only  *)
(* settings; and the scheme of the URL start() logs, and of the one it     *)
(* opens in the browser, is https when a certificate is configured and     *)
(* http otherwise.                                                         *)
(***************************************************************************)
C13_HttpsIffCertificate ==
    /\ SetUp => /\ ssl_options # {None} <=> certfile # ""
                /\ certfile # "" => warned = 0
    /\ \A url \in {logged, opened} \ {NoUrl} :
          url.proto = IF certfile # "" THEN "https" ELSE "http"

\* a certificate on all interfaces, no password, not read-only: https and
\* no warning; start() has logged the URL and opened the browser
C13_Witness ==
    /\ certfile # "" /\ ip = "" /\ password = "" /\ ~read_only
    /\ pc = "ioloop_start"
    /\ warned = 0
    /\ logged.proto = "https"
    /\ opened.proto = "https"

(***************************************************************************)
(* C14.  As stated: whenever start() has logged the URL and runs the       *)
(* IOLoop, the server listens on exactly one port, and that port is        *)
(* self.port, the port of the log line and the port of the browser URL.    *)
(***************************************************************************)
C14_ReportedPortListens ==
    (pc \in {"ioloop_start", "loop"})
        => /\ listening = {port}
           /\ logged.port = port
           /\ opened # NoUrl => opened.port = port

(***************************************************************************)
(* C15.  As stated: a step of a confirmation thread changes the state of   *)
(* the IOLoop only by queueing a callback on it; it never stops the loop,  *)
(* not even when the answer is a yes.                                      *)
(***************************************************************************)
C15_ThreadOnlyEnqueues ==
    [][ \A t \in ThreadIds :
          (tstate[t] \in {"select", "answered"} /\ tstate'[t] # tstate[t])
              => /\ stopRequested' = stopRequested
                 /\ loopEntered' = loopEntered
                 /\ \/ callbacks' = callbacks
                    \/ callbacks' = Append(callbacks, t) ]_vars

(***************************************************************************)
(* C16.  Every step that changes the handler registered for SIGINT or for  *)
(* SIGTERM is a step of the main thread: init_signal, a signal handler     *)
(* being run, or the IOLoop running a queued restore callback.  No step of *)
(* a confirmation thread changes a registration.                           *)
(***************************************************************************)
C16_MainThreadRegisters ==
    [][ (sigintHandler' # sigintHandler \/ sigtermHandler' # sigtermHandler)
          => /\ \/ pc = "init_signal" /\ pc' = "start"
                \/ Signals' = Signals + 1
                \/ pc = "loop" /\ callbacks # << >>
                               /\ callbacks' = Tail(callbacks)
             /\ \A t \in LiveThreads : tstate'[t] = tstate[t]
             /\ tline' = tline ]_vars

\* the registration has been changed by init_signal, by _handle_sigint, by
\* the restore callback of the first thread, and by _handle_sigint again
C16_Witness ==
    /\ sigints = 2
    /\ tstate[1] = "timeout"
    /\ restores[1] = 1
    /\ tstate[2] = "select"
    /\ sigintHandler = "signal_stop"
    /\ sigtermHandler = "signal_stop"

\* the for loop of init_webapp has ended without a successful listen()
GaveUp == pc = "init_webapp_return" /\ listening = {}

(***************************************************************************)
(* C17.  As stated: the scan gives up only after 5 + max_attempts listen() *)
(* calls, the five consecutive ports and max_attempts (50) random ones.    *)
(***************************************************************************)
C17_FiftyFiveAttempts == GaveUp => attempt = SeqRun + n

(***************************************************************************)
(* C17, amended.  The scan makes at most max_attempts (50) listen() calls  *)
(* in all: the five consecutive ports first, then up to max_attempts - 5   *)
(* (45) random ones.  It gives up only after the 50th call has failed, and *)
(* it never makes a 51st.                                                  *)
(***************************************************************************)
C17_FiftyAttempts ==
    /\ attempt <= n
    /\ GaveUp => attempt = n
    /\ (pc = "listen" /\ attempt <= SeqRun) => candidate = preferred + attempt - 1
    /\ (pc = "listen" /\ attempt > SeqRun) => candidate \in ScanRange(preferred)

\* every port of the interval is in use: 5 consecutive and 45 random ports
\* were tried
C17_Witness ==
    /\ GaveUp
    /\ attempt = n
    /\ ScanRange(preferred) \subseteq inUse

(***************************************************************************)
(* C18.  As stated: every candidate handed to listen() is a valid port:    *)
(* none is negative and none is above 65535, whatever the preferred port.  *)
(***************************************************************************)
C18_CandidatesClamped ==
    pc = "listen" => candidate \in 0..MaxPort

\* init_signal has registered the handlers
Installed == sigintHandler # "default" \/ sigtermHandler # "default"

(***************************************************************************)
(* C19.  As stated: the signal handlers are installed before the first     *)
(* bind attempt of the port scan.                                          *)
(***************************************************************************)
C19_HandlersBeforeBind ==
    (attempt > 0 \/ listening # {}) => Installed

(***************************************************************************)
(* C19, amended.  initialize() runs init_configurables, then init_webapp   *)
(* (server, warning and port scan), and only then init_signal: nothing is  *)
(* bound while the subsystems are constructed, no handler is installed     *)
(* until init_webapp has returned, and so every bind attempt precedes the  *)
(* installation of the handlers.                                           *)
(***************************************************************************)
C19_BindBeforeHandlers ==
    /\ pc = "init_configurables"
          => attempt = 0 /\ listening = {} /\ ssl_options = {None}
    /\ pc \in {"init_configurables", "init_webapp_setup", "init_webapp",
               "listen", "init_webapp_return", "init_signal"} => ~Installed
    /\ Installed => attempt = 0 /\ ssl_options = SslOptions
    /\ pc \in {"start", "ioloop_start", "loop"}
          => sigintHandler # "default" /\ sigtermHandler # "default"

\* the second listen() call has succeeded and init_signal has run
C19_Witness ==
    /\ pc = "start"
    /\ listening = {preferred + 1}
    /\ sigintHandler = "handle_sigint"
    /\ sigtermHandler = "signal_stop"
    /\ sigints = 0 /\ sigterms = 0

(***************************************************************************)
(* C20.  As stated: no failure of the browser launch ends start(): no      *)
(* browser error is raised to its caller, and once start() has logged the  *)
(* URL it goes on to run the IOLoop and, after it, the teardown.           *)
(***************************************************************************)
C20_BrowserNeverFatal ==
    /\ exc # "webbrowser.Error"
    /\ (logged # NoUrl /\ pc \in {"done", "raised"}) => loopEntered /\ cleaned

(***************************************************************************)
(* C21.  From the step in which _handle_sigint handles an interrupt until  *)
(* the IOLoop runs the restore callback, the handler registered for SIGINT *)
(* is _signal_stop: it is so while the confirmation thread is running and  *)
(* while its restore callback is queued, and only the run of a restore     *)
(* callback ends it.  So an interrupt that arrives while a restore         *)
(* callback is queued stops the loop and starts no confirmation thread.    *)
(***************************************************************************)
C21_ForcefulUntilRestored ==
    /\ []((LiveThreads # {} \/ callbacks # << >>)
             => sigintHandler = "signal_stop")
    /\ [][ (sigintHandler = "signal_stop" /\ sigintHandler' # "signal_stop")
             => /\ pc = "loop" /\ callbacks # << >>
                /\ callbacks' = Tail(callbacks)
                /\ restores' = [restores EXCEPT ![Head(callbacks)] = @ + 1] ]_vars
    /\ [][ (callbacks # << >> /\ sigints' = sigints + 1)
             => /\ stopRequested'
                /\ rounds' = rounds
                /\ sigintHandler' = "signal_stop" ]_vars

\* the thread timed out and queued the callback, and the interrupt that came
\* before the loop ran it has stopped the loop
C21_Witness ==
    /\ tstate[1] = "timeout"
    /\ callbacks = << 1 >>
    /\ restores[1] = 0
    /\ sigints = 2 /\ sigterms = 0
    /\ rounds = 1
    /\ stopRequested
    /\ sigintHandler = "signal_stop"

(***************************************************************************)
(* C22.  As stated: once IOLoop.stop() has been called, by a signal or by  *)
(* a confirmed shutdown, no step registers _handle_sigint for SIGINT again *)
(* and no step starts a confirmation thread.                               *)
(***************************************************************************)
C22_ForcedStopAbsorbing ==
    [][ stopRequested
          => /\ stopRequested'
             /\ sigintHandler # "handle_sigint"
                   => sigintHandler' # "handle_sigint"
             /\ rounds' = rounds ]_vars

====
